---- MODULE Spec2Model ----
(***************************************************************************)
(* reqflow (src/src/script.js): a facade over an axios instance.           *)
(* createApiApp stores a process-wide client in `api`; get, post, put,     *)
(* remove (exported as delete) and patch each issue one request on it and  *)
(* map the response, or the error, to a response object.                   *)
(*                                                                         *)
(* JavaScript values are tagged records: [kind |-> ...] with the payload   *)
(* in `val` (primitives) or `entries` (objects, own enumerable properties  *)
(* in enumeration order).  Strings are TLA+ strings.                       *)
(***************************************************************************)
EXTENDS Integers, Sequences, FiniteSets, TLC

\* ------------------------------------------------------------ bounds
\* Number of verb calls that may be in flight together (SpecConcurrent).
MaxCalls == 2
\* Number of createApiApp calls a run makes.
MaxInits == 2
\* Largest number of properties of a get `data` object (SpecQuery).
MaxPairs == 2

\* ------------------------------------------------------ JavaScript values
Undefined == [kind |-> "undefined"]
Null == [kind |-> "null"]
Symbol == [kind |-> "symbol"]
Bool(b) == [kind |-> "boolean", val |-> b]
Num(n) == [kind |-> "number", val |-> n]
Str(s) == [kind |-> "string", val |-> s]
Obj(entries) == [kind |-> "object", entries |-> entries]
Prop(k, v) == [key |-> k, value |-> v]
EmptyObject == Obj(<<>>)

\* ToBoolean: undefined, null, false, 0 and "" are falsy, the rest truthy.
Truthy(v) ==
    CASE v.kind \in {"undefined", "null"} -> FALSE
      [] v.kind = "boolean" -> v.val
      [] v.kind = "number" -> v.val # 0
      [] v.kind = "string" -> v.val # ""
      [] OTHER -> TRUE

\* a || b
Or(a, b) == IF Truthy(a) THEN a ELSE b

\* v?.name : undefined on a nullish v and on a value without that property.
Get(v, name) ==
    IF v.kind = "object" /\ \E i \in 1..Len(v.entries) : v.entries[i].key = name
    THEN LET i == CHOOSE j \in 1..Len(v.entries) : v.entries[j].key = name
         IN v.entries[i].value
    ELSE Undefined

\* ------------------------------------------------- query string (get)
\* The characters of the strings that occur as keys and values of `data`.
CharsOf ==
    [s \in {"a", "b", "q", "x", "a b", "x&y"} |->
        CASE s = "a b" -> <<"a", " ", "b">>
          [] s = "x&y" -> <<"x", "&", "y">>
          [] OTHER -> <<s>>]

Digit == <<"0", "1", "2", "3", "4", "5", "6", "7", "8", "9">>

\* Number::toString of a non-negative integer, as characters.
RECURSIVE NumberChars(_)
NumberChars(n) ==
    IF n < 10 THEN <<Digit[n + 1]>>
    ELSE Append(NumberChars(n \div 10), Digit[(n % 10) + 1])

\* The USVString conversion URLSearchParams applies to a property value;
\* <<"throw">> stands for the TypeError a Symbol raises.
ToChars(v) ==
    CASE v.kind = "string" -> CharsOf[v.val]
      [] v.kind = "number" -> NumberChars(v.val)
      [] OTHER -> <<"throw">>

\* application/x-www-form-urlencoded byte serialisation of one character.
Unreserved == {"a", "b", "q", "x", "y", "*", "-", ".", "_"} \cup {Digit[i] : i \in 1..10}
PercentCode == [c \in {"&", "=", "+", "%", "?", "/"} |->
    CASE c = "&" -> "%26" [] c = "=" -> "%3D" [] c = "+" -> "%2B"
      [] c = "%" -> "%25" [] c = "?" -> "%3F" [] c = "/" -> "%2F"]
EncodeChar(c) ==
    IF c = " " THEN "+" ELSE IF c \in Unreserved THEN c ELSE PercentCode[c]

RECURSIVE Encode(_)
Encode(chars) ==
    IF chars = <<>> THEN "" ELSE EncodeChar(Head(chars)) \o Encode(Tail(chars))

\* new URLSearchParams(data) raises a TypeError when a value is a Symbol.
URLSearchParamsThrows(data) ==
    \E i \in 1..Len(data.entries) : data.entries[i].value.kind = "symbol"

\* new URLSearchParams(data).toString() for a record `data`.
RECURSIVE Serialize(_)
Serialize(entries) ==
    IF entries = <<>> THEN ""
    ELSE LET e == Head(entries)
             pair == Encode(CharsOf[e.key]) \o "=" \o Encode(ToChars(e.value))
         IN IF Len(entries) = 1 THEN pair ELSE pair \o "&" \o Serialize(Tail(entries))

URLSearchParamsToString(data) == Serialize(data.entries)

\* ------------------------------------------------------------- state
VARIABLES
    api,       \* `let api` (line 12): undefined, or the axios instance
    calls,     \* per verb call: its promise, arguments, awaited outcome
    requests,  \* the requests handed to the axios instance, in order
    stderr     \* the lines written by console.error
vars == <<api, calls, requests, stderr>>

NoApiMessage == "No api app created!, try creating one using createApiApp() in the root file"

\* A call that has not been made yet.
Idle ==
    [pc |-> "idle", verb |-> "", options |-> Undefined, client |-> Undefined,
     outcome |-> Undefined, result |-> Undefined]

\* ------------------------------------------------------------ inputs
BaseURLs == {"https://api.example.com"}
Routes == {"/items", "/users"}
Configs == {Undefined, Obj(<<Prop("timeout", Num(1000))>>)}
Bodies == {Undefined, Obj(<<Prop("name", Str("x"))>>)}
Keys == {"a", "b", "q"}
Values == {Num(1), Num(42), Str("x"), Str("a b"), Str("x&y"), Symbol}

\* Objects with up to n properties, distinct keys, in enumeration order.
RECURSIVE EntriesUpTo(_)
EntriesUpTo(n) ==
    IF n = 0 THEN {<<>>}
    ELSE LET shorter == EntriesUpTo(n - 1)
         IN shorter \cup
            {Append(es, Prop(k, v)) :
                es \in {e \in shorter : Len(e) = n - 1}, k \in Keys, v \in Values}
DistinctKeys(es) == \A i, j \in 1..Len(es) : es[i].key = es[j].key => i = j
QueryObjects == {Obj(es) : es \in {e \in EntriesUpTo(MaxPairs) : DistinctKeys(e)}}

ItemsQuery == Obj(<<Prop("a", Num(1)), Prop("b", Str("x"))>>)
JsonHeaders == Obj(<<Prop("content-type", Str("application/json"))>>)
Item == Obj(<<Prop("id", Num(7))>>)

\* What the axios instance resolves with.
Response(status, data) ==
    [kind |-> "response", status |-> status, headers |-> JsonHeaders, data |-> data]
\* What it rejects with: an Error, carrying the response when one arrived.
Error(message, response) ==
    [kind |-> "error", message |-> message, response |-> response]
TypeError == [kind |-> "error", message |-> Str("TypeError"), response |-> Undefined]

Payloads == {Null, Bool(FALSE), Num(0), Str(""), Item}
ErrorPayloads ==
    {Undefined, Null, Bool(FALSE), Num(0), Str(""), Str("Bad Request"),
     Obj(<<Prop("message", Str("Not found"))>>),
     Obj(<<Prop("message", Str(""))>>),
     Obj(<<Prop("code", Num(7))>>)}
ErrorMessages == {Undefined, Str(""), Str("Request failed")}

Responses == {Response(s, d) : s \in {200, 204}, d \in Payloads}
Errors ==
    {Error(m, Response(s, d)) :
        m \in ErrorMessages, s \in {304, 400, 404, 499, 500, 503}, d \in ErrorPayloads}
    \cup {Error(m, Undefined) : m \in ErrorMessages}

FewResponses == {Response(200, Item), Response(204, Null)}
FewErrors ==
    {Error(Str("Request failed"), Response(404, Obj(<<Prop("message", Str("Not found"))>>))),
     Error(Str("Network Error"), Undefined)}

\* --------------------------------------------------------- operations
\* createApiApp(baseURL, config = {}): api = axios.create({baseURL, ...config}).
\* Every call makes a new instance; `id` is its identity.
createApiApp(baseURL, config) ==
    /\ (IF api = Undefined THEN 0 ELSE api.id) < MaxInits
    /\ api' = [kind |-> "client",
               id |-> (IF api = Undefined THEN 0 ELSE api.id) + 1,
               baseURL |-> baseURL, config |-> IF config = Undefined THEN EmptyObject ELSE config]
    /\ UNCHANGED <<calls, requests, stderr>>

\* Mutant of NoApiApp: the missing instance is reported by throwing.
NoApiApp_Throws(c, verb, options) ==
    /\ calls' = [calls EXCEPT ![c] =
                    [pc |-> "rejected", verb |-> verb, options |-> options,
                     client |-> Undefined, outcome |-> Undefined, result |-> TypeError]]
    /\ UNCHANGED <<api, requests, stderr>>

\* The else branch of every verb: one console.error line, and the async
\* function ends without a return statement, so its promise is fulfilled
\* with undefined.
NoApiApp(c, verb, options) ==
    /\ calls' = [calls EXCEPT ![c] =
                    [pc |-> "fulfilled", verb |-> verb, options |-> options,
                     client |-> Undefined, outcome |-> Undefined, result |-> Undefined]]
    /\ stderr' = Append(stderr, NoApiMessage)
    /\ UNCHANGED <<api, requests>>

\* `await api.<method>(...)`: the request goes to the instance `api` names
\* now, and the function is suspended until the instance settles it.
Await(c, verb, options, method, url, data, config) ==
    /\ calls' = [calls EXCEPT ![c] =
                    [pc |-> "pending", verb |-> verb, options |-> options,
                     client |-> api, outcome |-> Undefined, result |-> Undefined]]
    /\ requests' = Append(requests,
                    [call |-> c, method |-> method, url |-> url, data |-> data,
                     config |-> config, client |-> api])
    /\ UNCHANGED <<api, stderr>>

\* An exception outside any try block rejects the async function's promise.
Throw(c, verb, options, error) ==
    /\ calls' = [calls EXCEPT ![c] =
                    [pc |-> "rejected", verb |-> verb, options |-> options,
                     client |-> api, outcome |-> Undefined, result |-> error]]
    /\ UNCHANGED <<api, requests, stderr>>

\* A destructuring default applies to an absent (undefined) property only.
Default(v, d) == IF v = Undefined THEN d ELSE v
WithCredentials == Obj(<<Prop("withCredentials", Bool(TRUE))>>)

\* Mutant of get: no "?" is appended when the query string is empty.
get_NoEmptyQuery(c, options) ==
    /\ calls[c].pc = "idle"
    /\ LET data == Default(options.data, Null)
           config == Default(options.config, EmptyObject)
       IN IF Truthy(api)
          THEN IF data # Null /\ URLSearchParamsThrows(data)
               THEN Throw(c, "get", options, TypeError)
               ELSE LET queryParam == IF data # Null THEN URLSearchParamsToString(data) ELSE ""
                        newRoute == IF queryParam = "" THEN options.route
                                    ELSE options.route \o "?" \o queryParam
                    IN Await(c, "get", options, "GET", newRoute, Undefined, config)
          ELSE NoApiApp(c, "get", options)

get(c, options) ==
    /\ calls[c].pc = "idle"
    /\ LET data == Default(options.data, Null)
           config == Default(options.config, EmptyObject)
       IN IF Truthy(api)
          THEN IF data # Null /\ URLSearchParamsThrows(data)
               THEN Throw(c, "get", options, TypeError)
               ELSE LET queryParam == IF data # Null THEN URLSearchParamsToString(data) ELSE ""
                        newRoute == options.route \o "?" \o queryParam
                    IN Await(c, "get", options, "GET", newRoute, Undefined, config)
          ELSE NoApiApp(c, "get", options)

post(c, options) ==
    /\ calls[c].pc = "idle"
    /\ IF Truthy(api)
       THEN Await(c, "post", options, "POST", options.route, options.data,
                  Default(options.config, WithCredentials))
       ELSE NoApiApp(c, "post", options)

put(c, options) ==
    /\ calls[c].pc = "idle"
    /\ IF Truthy(api)
       THEN Await(c, "put", options, "PUT", options.route, options.data,
                  Default(options.config, EmptyObject))
       ELSE NoApiApp(c, "put", options)

remove(c, options) ==
    /\ calls[c].pc = "idle"
    /\ IF Truthy(api)
       THEN Await(c, "delete", options, "DELETE", options.route, Undefined,
                  Default(options.config, WithCredentials))
       ELSE NoApiApp(c, "delete", options)

patch(c, options) ==
    /\ calls[c].pc = "idle"
    /\ IF Truthy(api)
       THEN Await(c, "patch", options, "PATCH", options.route, options.data,
                  Default(options.config, WithCredentials))
       ELSE NoApiApp(c, "patch", options)

\* Mutant of Success: the body falls back to {} as in formatError.
Success_BodyOrEmpty(response) ==
    [headers |-> response.headers,
     main |-> [status |-> response.status, message |-> Str("Success"),
               body |-> Or(response.data, EmptyObject)]]

\* The object every verb returns after a successful await.
Success(response) ==
    [headers |-> response.headers,
     main |-> [status |-> response.status, message |-> Str("Success"),
               body |-> response.data]]

\* Mutants of formatError.  All share the code's two branches.
FormatErrorWith(err, limit, message, flat) ==
    LET response == err.response
        status == IF response = Undefined THEN 0 ELSE response.status
        data == IF response = Undefined THEN Undefined ELSE response.data
        main == IF status >= limit
                THEN [status |-> status,
                      message |-> Str("Something went wrong. Please try again later."),
                      body |-> Null]
                ELSE [status |-> status, message |-> message,
                      body |-> Or(data, EmptyObject)]
    IN IF flat
       THEN [headers |-> EmptyObject, status |-> main.status,
             message |-> main.message, body |-> main.body]
       ELSE [headers |-> EmptyObject, main |-> main]
DataOf(err) == IF err.response = Undefined THEN Undefined ELSE err.response.data
\* status, message and body beside headers instead of under main
formatError_Flat(err) ==
    FormatErrorWith(err, 500,
        Or(Or(Get(DataOf(err), "message"), err.message), Str("Unknown error")), TRUE)
\* status > 500 instead of status >= 500
formatError_Above500(err) ==
    FormatErrorWith(err, 501,
        Or(Or(Get(DataOf(err), "message"), err.message), Str("Unknown error")), FALSE)
\* err.message || err.response?.data?.message || "Unknown error"
formatError_ErrorFirst(err) ==
    FormatErrorWith(err, 500,
        Or(Or(err.message, Get(DataOf(err), "message")), Str("Unknown error")), FALSE)
\* no "Unknown error" fallback
formatError_NoFallback(err) ==
    FormatErrorWith(err, 500, Or(Get(DataOf(err), "message"), err.message), FALSE)

\* formatError(err); `response` and `data` are err.response and
\* err.response?.data.
formatError(err) ==
    LET response == err.response
        \* err.response?.status || 0 (a status of 0 is falsy and gives 0 too)
        status == IF response = Undefined THEN 0 ELSE response.status
        data == IF response = Undefined THEN Undefined ELSE response.data
    IN IF status >= 500
       THEN [headers |-> EmptyObject,
             main |-> [status |-> status,
                       message |-> Str("Something went wrong. Please try again later."),
                       body |-> Null]]
       ELSE [headers |-> EmptyObject,
             main |-> [status |-> status,
                       message |-> Or(Or(Get(data, "message"), err.message),
                                      Str("Unknown error")),
                       body |-> Or(data, EmptyObject)]]

\* Mutant of Resolve: one response settles every request in flight.
Resolve_Shared(c, response) ==
    /\ calls[c].pc = "pending"
    /\ calls' = [d \in DOMAIN calls |->
                    IF d = c
                    THEN [calls[d] EXCEPT !.pc = "fulfilled", !.outcome = response,
                                          !.result = Success(response)]
                    ELSE IF calls[d].pc = "pending"
                    THEN [calls[d] EXCEPT !.pc = "fulfilled", !.result = Success(response)]
                    ELSE calls[d]]
    /\ UNCHANGED <<api, requests, stderr>>

\* The awaited request succeeds: the verb returns the success object.
Resolve(c, response) ==
    /\ calls[c].pc = "pending"
    /\ calls' = [calls EXCEPT ![c].pc = "fulfilled", ![c].outcome = response,
                              ![c].result = Success(response)]
    /\ UNCHANGED <<api, requests, stderr>>

\* Mutant of Reject: a failed call puts back the instance it was issued on.
Reject_RestoresApi(c, err) ==
    /\ calls[c].pc = "pending"
    /\ calls' = [calls EXCEPT ![c].pc = "fulfilled", ![c].outcome = err,
                              ![c].result = formatError(err)]
    /\ api' = calls[c].client
    /\ UNCHANGED <<requests, stderr>>

\* The awaited request fails: the catch block returns formatError(err).
Reject(c, err) ==
    /\ calls[c].pc = "pending"
    /\ calls' = [calls EXCEPT ![c].pc = "fulfilled", ![c].outcome = err,
                              ![c].result = formatError(err)]
    /\ UNCHANGED <<api, requests, stderr>>

\* --------------------------------------------------- specifications
Options(dataSet) == [route : Routes, data : dataSet, config : Configs]

\* Calls are numbered in the order they are made.
Callable(c) == \A d \in DOMAIN calls : d < c => calls[d].pc # "idle"

Init ==
    /\ api = Undefined
    /\ calls = [c \in {1} |-> Idle]
    /\ requests = <<>>
    /\ stderr = <<>>

\* One verb call, with every outcome of its request.
Next ==
    \/ \E b \in BaseURLs, cfg \in Configs : createApiApp(b, cfg)
    \/ \E c \in DOMAIN calls, o \in Options({Undefined, Null, ItemsQuery}) : get(c, o)
    \/ \E c \in DOMAIN calls, o \in Options(Bodies) : post(c, o)
    \/ \E c \in DOMAIN calls, o \in Options(Bodies) : put(c, o)
    \/ \E c \in DOMAIN calls, o \in Options({Undefined}) : remove(c, o)
    \/ \E c \in DOMAIN calls, o \in Options(Bodies) : patch(c, o)
    \/ \E c \in DOMAIN calls, r \in Responses : Resolve(c, r)
    \/ \E c \in DOMAIN calls, e \in Errors : Reject(c, e)

Spec == Init /\ [][Next]_vars

QueryOptions ==
    [route : Routes, data : {Undefined, Null} \cup QueryObjects, config : {Undefined}]

\* One get call, with every `data` object.
NextQuery ==
    \/ \E b \in BaseURLs : createApiApp(b, Undefined)
    \/ \E c \in DOMAIN calls, o \in QueryOptions : get(c, o)
    \/ \E c \in DOMAIN calls, r \in FewResponses : Resolve(c, r)
    \/ \E c \in DOMAIN calls, e \in FewErrors : Reject(c, e)

SpecQuery == Init /\ [][NextQuery]_vars

FewOptions == [route : {"/items"}, data : {Undefined}, config : {Undefined}]

InitConcurrent ==
    /\ api = Undefined
    /\ calls = [c \in 1..MaxCalls |-> Idle]
    /\ requests = <<>>
    /\ stderr = <<>>

\* Several calls in flight together, settled in any order.
NextConcurrent ==
    \/ \E b \in BaseURLs : createApiApp(b, Undefined)
    \/ \E c \in DOMAIN calls, o \in FewOptions : Callable(c) /\ get(c, o)
    \/ \E c \in DOMAIN calls, o \in FewOptions : Callable(c) /\ post(c, o)
    \/ \E c \in DOMAIN calls, o \in FewOptions : Callable(c) /\ put(c, o)
    \/ \E c \in DOMAIN calls, o \in FewOptions : Callable(c) /\ remove(c, o)
    \/ \E c \in DOMAIN calls, o \in FewOptions : Callable(c) /\ patch(c, o)
    \/ \E c \in DOMAIN calls, r \in FewResponses : Resolve(c, r)
    \/ \E c \in DOMAIN calls, e \in FewErrors : Reject(c, e)

SpecConcurrent == InitConcurrent /\ [][NextConcurrent]_vars

\* ------------------------------------------------------------ claims
\* A call made after createApiApp (api was set when it ran).
Initialised(c) == calls[c].pc # "idle" /\ calls[c].client # Undefined
\* A call made while api was still undefined.
Uninitialised(c) == calls[c].pc # "idle" /\ calls[c].client = Undefined
\* The call's request was answered and the verb returned.
Returned(c) == Initialised(c) /\ calls[c].pc = "fulfilled"
Failed(c) == Returned(c) /\ calls[c].outcome.kind = "error"
FailedWithResponse(c) == Failed(c) /\ calls[c].outcome.response # Undefined
FailedWithoutResponse(c) == Failed(c) /\ calls[c].outcome.response = Undefined
Succeeded(c) == Returned(c) /\ calls[c].outcome.kind = "response"
RequestsOf(c) == {i \in 1..Len(requests) : requests[i].call = c}

\* C1: after init, the promise of every verb call is fulfilled with a
\* response object and never rejected, whatever the options and the outcome.
C1_NeverRejected ==
    \A c \in DOMAIN calls :
        Initialised(c) => calls[c].pc \in {"pending", "fulfilled"}

\* C2 (as stated): every returned value has exactly the four fields
\* headers, status, message and body, all at the top level.
C2_FourFlatFields ==
    \A c \in DOMAIN calls :
        Returned(c) => DOMAIN calls[c].result = {"headers", "status", "message", "body"}

\* C2 (amended): every returned value has exactly the two fields headers and
\* main, and main has exactly the three fields status, message and body.
C2_HeadersAndMain ==
    \A c \in DOMAIN calls :
        Returned(c) =>
            /\ DOMAIN calls[c].result = {"headers", "main"}
            /\ DOMAIN calls[c].result.main = {"status", "message", "body"}

C2_Witness ==
    \E c \in DOMAIN calls :
        /\ FailedWithResponse(c)
        /\ calls[c].outcome.response.status = 404
        /\ calls[c].result.main.body = Obj(<<Prop("message", Str("Not found"))>>)

\* C3: a failure whose response status is >= 500 returns empty headers, that
\* status, the fixed generic message and a null body, whatever the server sent.
C3_ServerError ==
    \A c \in DOMAIN calls :
        (FailedWithResponse(c) /\ calls[c].outcome.response.status >= 500) =>
            /\ calls[c].result.headers = EmptyObject
            /\ calls[c].result.main.status = calls[c].outcome.response.status
            /\ calls[c].result.main.message =
                   Str("Something went wrong. Please try again later.")
            /\ calls[c].result.main.body = Null

C3_Witness ==
    \E c \in DOMAIN calls :
        /\ FailedWithResponse(c)
        /\ calls[c].outcome.response.status = 500
        /\ calls[c].outcome.response.data = Obj(<<Prop("message", Str("Not found"))>>)
        /\ calls[c].outcome.response.headers # EmptyObject
        /\ calls[c].result.main.body = Null

ClientError(c) ==
    /\ FailedWithResponse(c)
    /\ calls[c].outcome.response.status >= 400
    /\ calls[c].outcome.response.status <= 499

\* C4 (as stated): a 4xx failure returns the status, empty headers, the
\* server's payload as body (the empty mapping only when no payload was sent),
\* and as message the payload's message field when it has one, else the
\* error's message, else "Unknown error".
C4_PayloadAsSent ==
    \A c \in DOMAIN calls :
        ClientError(c) =>
            LET err == calls[c].outcome
                data == err.response.data
                sent == data \notin {Undefined, Null, Str("")}
                field == Get(data, "message")
            IN /\ calls[c].result.main.status = err.response.status
               /\ calls[c].result.headers = EmptyObject
               /\ calls[c].result.main.body = (IF sent THEN data ELSE EmptyObject)
               /\ calls[c].result.main.message =
                      (IF field # Undefined THEN field
                       ELSE IF err.message \notin {Undefined, Str("")} THEN err.message
                       ELSE Str("Unknown error"))

\* C4 (amended): a 4xx failure returns the status, empty headers, as body the
\* server's payload when it is truthy and the empty mapping otherwise (no
\* payload, or a payload that is null, false, 0 or ""), and as message the
\* payload's message field when it is truthy, else the error's message when it
\* is truthy, else "Unknown error".
C4_TruthyPayload ==
    \A c \in DOMAIN calls :
        ClientError(c) =>
            LET err == calls[c].outcome
                data == err.response.data
                field == Get(data, "message")
            IN /\ calls[c].result.main.status = err.response.status
               /\ calls[c].result.headers = EmptyObject
               /\ calls[c].result.main.body = (IF Truthy(data) THEN data ELSE EmptyObject)
               /\ calls[c].result.main.message =
                      (IF Truthy(field) THEN field
                       ELSE IF Truthy(err.message) THEN err.message
                       ELSE Str("Unknown error"))

C4_Witness ==
    \E c \in DOMAIN calls :
        /\ ClientError(c)
        /\ calls[c].outcome.response.data = Bool(FALSE)
        /\ calls[c].outcome.message = Str("Request failed")
        /\ calls[c].result.main.body = EmptyObject
        /\ calls[c].result.main.message = Str("Request failed")

\* C5: a failure with no response returns status 0, empty headers, an empty
\* body and the error's message, or "Unknown error" when it has none; and
\* status 0 is returned only when no response was received.
C5_NoResponse ==
    \A c \in DOMAIN calls :
        /\ FailedWithoutResponse(c) =>
            /\ calls[c].result.main.status = 0
            /\ calls[c].result.headers = EmptyObject
            /\ calls[c].result.main.body = EmptyObject
            /\ calls[c].result.main.message =
                   (IF calls[c].outcome.message \in {Undefined, Str("")}
                    THEN Str("Unknown error") ELSE calls[c].outcome.message)
        /\ (Returned(c) /\ calls[c].result.main.status = 0) => FailedWithoutResponse(c)

C5_Witness ==
    \E c \in DOMAIN calls :
        /\ FailedWithoutResponse(c)
        /\ calls[c].outcome.message = Undefined
        /\ calls[c].result.main.message = Str("Unknown error")

\* C6: a successful request returns message "Success", the response's status
\* and headers, and the decoded payload unchanged, also when it is falsy.
C6_Success ==
    \A c \in DOMAIN calls :
        Succeeded(c) =>
            /\ calls[c].result.main.message = Str("Success")
            /\ calls[c].result.main.status = calls[c].outcome.status
            /\ calls[c].result.headers = calls[c].outcome.headers
            /\ calls[c].result.main.body = calls[c].outcome.data

C6_Witness ==
    \E c \in DOMAIN calls :
        /\ Succeeded(c)
        /\ calls[c].verb = "delete"
        /\ calls[c].outcome.status = 204
        /\ calls[c].outcome.data = Num(0)
        /\ calls[c].result.main.body = Num(0)

\* C7: a verb called before any createApiApp does not throw, its promise is
\* fulfilled with undefined, it writes exactly one diagnostic and it issues
\* no request.
C7_BeforeInit ==
    /\ \A c \in DOMAIN calls :
        Uninitialised(c) =>
            /\ calls[c].pc = "fulfilled"
            /\ calls[c].result = Undefined
            /\ RequestsOf(c) = {}
    /\ Len(stderr) = Cardinality({c \in DOMAIN calls : Uninitialised(c)})
    /\ \A i \in 1..Len(stderr) : stderr[i] = NoApiMessage

C7_Witness ==
    \E c \in DOMAIN calls :
        /\ Uninitialised(c)
        /\ calls[c].verb = "patch"
        /\ api # Undefined
        /\ Len(stderr) = 1

\* C8: with several calls in flight, a call returns only when its own request
\* was answered, it then holds the response object of that request's outcome,
\* and a call whose request is still open holds none, whatever the others did.
C8_OwnOutcome ==
    \A c \in DOMAIN calls :
        /\ (Initialised(c) /\ calls[c].pc = "pending") =>
                calls[c].outcome = Undefined /\ calls[c].result = Undefined
        /\ Succeeded(c) =>
            /\ calls[c].result.main.status = calls[c].outcome.status
            /\ calls[c].result.headers = calls[c].outcome.headers
            /\ calls[c].result.main.body = calls[c].outcome.data
            /\ calls[c].result.main.message = Str("Success")
        /\ Failed(c) =>
            LET err == calls[c].outcome
                data == IF err.response = Undefined THEN Undefined ELSE err.response.data
            IN /\ calls[c].result.main.status =
                      (IF err.response = Undefined THEN 0 ELSE err.response.status)
               /\ calls[c].result.headers = EmptyObject
               /\ calls[c].result.main.body \in {data, EmptyObject, Null}
               /\ calls[c].result.main.message \in
                      {Get(data, "message"), err.message, Str("Unknown error"),
                       Str("Something went wrong. Please try again later.")}
        /\ Returned(c) =>
            /\ Cardinality(RequestsOf(c)) = 1
            /\ calls[c].outcome.kind \in {"response", "error"}

\* Call 2 was made while call 1 was in flight and has failed; call 1 is still
\* waiting for its own response.
C8_Witness ==
    /\ Initialised(1) /\ calls[1].pc = "pending"
    /\ FailedWithoutResponse(2)
    /\ calls[1].verb = "post" /\ calls[2].verb = "put"

\* C9 (as stated): once set, the handle keeps the value of the first
\* createApiApp under every later createApiApp and verb call.
C9_KeepsFirstInit == [][api # Undefined => api' = api]_vars

\* C9 (amended): only createApiApp writes the handle, and each createApiApp
\* replaces it with a new instance; no verb call, made or in flight, writes it,
\* and a request in flight stays with the instance it was issued on.
C9_OnlyInitWrites ==
    [][/\ calls' # calls => api' = api
       /\ api' # api =>
            /\ api'.id = (IF api = Undefined THEN 0 ELSE api.id) + 1
            /\ calls' = calls /\ requests' = requests]_vars

C9_Witness ==
    /\ api # Undefined /\ api.id = 2
    /\ \E c \in DOMAIN calls :
        /\ calls[c].pc = "fulfilled" /\ Initialised(c) /\ calls[c].client.id = 1
    /\ \E c \in DOMAIN calls :
        /\ calls[c].pc = "pending" /\ calls[c].client.id = 1

\* The text of a string or number value, not encoded.
RECURSIVE Concat(_)
Concat(chars) == IF chars = <<>> THEN "" ELSE Head(chars) \o Concat(Tail(chars))
Text(v) == IF v.kind = "string" THEN v.val ELSE Concat(NumberChars(v.val))
RECURSIVE Pairs(_)
Pairs(entries) ==
    IF entries = <<>> THEN ""
    ELSE LET pair == Head(entries).key \o "=" \o Text(Head(entries).value)
         IN IF Len(entries) = 1 THEN pair ELSE pair \o "&" \o Pairs(Tail(entries))
\* `data` is absent, null, or a flat mapping of strings and numbers.
FlatData(data) ==
    \/ data \in {Undefined, Null}
    \/ \A i \in 1..Len(data.entries) : data.entries[i].value.kind \in {"string", "number"}
GetCall(c) ==
    Initialised(c) /\ calls[c].verb = "get" /\ FlatData(calls[c].options.data)

\* C10 (as stated): get issues exactly one GET request to route, "?", and the
\* key=value pairs of data joined by "&" (nothing when data is null or omitted).
C10_PlainPairs ==
    \A c \in DOMAIN calls :
        GetCall(c) =>
            /\ Cardinality(RequestsOf(c)) = 1
            /\ \A i \in RequestsOf(c) :
                /\ requests[i].method = "GET"
                /\ requests[i].url = calls[c].options.route \o "?" \o
                       (IF calls[c].options.data \in {Undefined, Null} THEN ""
                        ELSE Pairs(calls[c].options.data.entries))

\* A string that consists of unreserved characters only.
Plain(s) == \A i \in 1..Len(CharsOf[s]) : CharsOf[s][i] \in Unreserved
PlainData(data) ==
    \/ data \in {Undefined, Null}
    \/ \A i \in 1..Len(data.entries) :
        /\ Plain(data.entries[i].key)
        /\ data.entries[i].value.kind = "string" => Plain(data.entries[i].value.val)

\* C10 (amended): get issues exactly one GET request to route, "?", and the
\* form-urlencoded key=value pairs of data joined by "&" (a space becomes "+",
\* "&" becomes "%26"); the pairs are the literal keys and values when these
\* hold unreserved characters only, and there are none when data is null,
\* omitted or empty.
C10_EncodedPairs ==
    \A c \in DOMAIN calls :
        GetCall(c) =>
            LET data == calls[c].options.data
                none == data \in {Undefined, Null}
            IN /\ Cardinality(RequestsOf(c)) = 1
               /\ \A i \in RequestsOf(c) :
                    /\ requests[i].method = "GET"
                    /\ requests[i].url = calls[c].options.route \o "?" \o
                           (IF none THEN "" ELSE URLSearchParamsToString(data))
                    /\ PlainData(data) =>
                           requests[i].url = calls[c].options.route \o "?" \o
                               (IF none THEN "" ELSE Pairs(data.entries))
                    /\ (~none /\ data.entries = <<Prop("q", Str("a b")), Prop("a", Str("x&y"))>>)
                           => requests[i].url = calls[c].options.route \o "?q=a+b&a=x%26y"

C10_Witness ==
    \E c \in DOMAIN calls :
        /\ GetCall(c)
        /\ calls[c].options.data = ItemsQuery
        /\ \E i \in RequestsOf(c) : requests[i].url = "/items?a=1&b=x"
====
